---- MODULE Spec2Model ----
(***************************************************************************)
(* A model of the GEDCOM parser (gedcom/parser.py, gedcom/element.py):     *)
(* the constructor of Gedcom reads a text, splits it into lines, parses    *)
(* every line into an Element and links the elements into a tree; the      *)
(* query methods then walk that tree and the pointer dictionary.           *)
(*                                                                         *)
(* A text is a sequence of tokens.  A token is a maximal piece of a line   *)
(* that the line grammar of parse_line reads as a unit (the level with its *)
(* space, the pointer with its space, the tag, the value with its leading  *)
(* space), or one of the two characters carriage return and line feed.     *)
(* Elements are objects: they live in the heap elem, and lists and the     *)
(* dictionary hold their identities (natural numbers, 0 = top_element).    *)
(***************************************************************************)
EXTENDS Integers, Sequences, FiniteSets, TLC

VARIABLES
    text,       \* what fd.read() returns
    pc,         \* position of the constructor: "start", "loop", "done", "error"
    lines,      \* the lines the for loop of parse has still to visit
    line_num,   \* parse: line_num
    last_elem,  \* parse: last_elem
    elem,       \* the Element objects: identity -> fields
    as_list,    \* Gedcom.as_list
    as_dict,    \* Gedcom.as_dict
    err,        \* the exception that ended the constructor, if any
    result      \* the last query call and what it returned or raised

vars == <<text, pc, lines, line_num, last_elem, elem, as_list, as_dict, err, result>>

-----------------------------------------------------------------------------
(* Bounds of the model *)

\* the longest text of free-form lines
MaxLines == 3
\* the largest level written on a free-form line
MaxLevel == 2
\* the depth at which a recursive query is cut off with a RuntimeError
\* (the interpreter's recursion limit)
MaxDepth == 5

-----------------------------------------------------------------------------
(* Tokens and texts *)

Tok(k, n, s) == [k |-> k, n |-> n, s |-> s]
LevelTok(n) == Tok("level", n, "")
PointerTok(p) == Tok("pointer", 0, p)
TagTok(t) == Tok("tag", 0, t)
ValueTok(v) == Tok("value", 0, v)
CR == Tok("CR", 0, "")
LF == Tok("LF", 0, "")

\* a line as written in a file, without its line terminator
LineText(level, pointer, tag, value) ==
    <<LevelTok(level)>>
    \o (IF pointer = "" THEN <<>> ELSE <<PointerTok(pointer)>>)
    \o <<TagTok(tag)>>
    \o (IF value = "" THEN <<>> ELSE <<ValueTok(value)>>)

L(level, pointer, tag, value) ==
    [level |-> level, pointer |-> pointer, tag |-> tag, value |-> value]

RECURSIVE JoinLines(_, _, _)
\* the text of the lines ls, each but the last followed by its terminator
\* (CR LF or a bare LF); the last one is followed by it when finalLF holds,
\* and otherwise by the carriage return alone (when the text uses one)
JoinLines(ls, useCR, finalLF) ==
    IF ls = <<>> THEN <<>>
    ELSE LET l == Head(ls)
             body == LineText(l.level, l.pointer, l.tag, l.value)
                     \o (IF useCR THEN <<CR>> ELSE <<>>)
         IN  IF Len(ls) = 1
             THEN body \o (IF finalLF THEN <<LF>> ELSE <<>>)
             ELSE body \o <<LF>> \o JoinLines(Tail(ls), useCR, finalLF)

-----------------------------------------------------------------------------
(* Element (gedcom/element.py) *)

\* Element.parent of an element that has none
NoneRef == -1
\* the level of Gedcom.top_element
TopLevel == -1
\* the identity of Gedcom.top_element
top_element == 0

Element(level, pointer, tag, value) ==
    [level |-> level, pointer |-> pointer, tag |-> tag, value |-> value,
     children |-> <<>>, parent |-> NoneRef]

add_child(e, child) == [e EXCEPT !.children = Append(@, child)]

add_parent(e, p) == [e EXCEPT !.parent = p]

is_individual(e) == elem[e].tag = "INDI"

is_family(e) == elem[e].tag = "FAM"

-----------------------------------------------------------------------------
(* Gedcom.parse and Gedcom.parse_line (gedcom/parser.py) *)

RECURSIVE Split(_)
\* str.split('\n'): the pieces between the line feeds, one more than there
\* are line feeds
Split(s) ==
    IF \A i \in 1..Len(s) : s[i] # LF THEN <<s>>
    ELSE LET i == CHOOSE j \in 1..Len(s) :
                      s[j] = LF /\ \A k \in 1..(j - 1) : s[k] # LF
         IN  <<SubSeq(s, 1, i - 1)>> \o Split(SubSeq(s, i + 1, Len(s)))

\* [:-1]
DropLast(l) == SubSeq(l, 1, Len(l) - 1)

\* fd.read().split('\n')[:-1]
LinesToParse(t) == DropLast(Split(t))

NoMatch == [ok |-> FALSE, level |-> 0, pointer |-> "", tag |-> "", value |-> ""]

\* re.match(ged_line_re, line) and the four groups:
\*   '^\s*(0|[1-9]+[0-9]*) (@[^@]+@ |)([A-Za-z0-9_]+)\s*(.*)\r$'
\* a level, an optional pointer, a tag, then anything, then a carriage
\* return at the very end of the line.  The texts of the model put at most
\* one value token between the tag and the carriage return.
ged_line_match(line) ==
    LET n == Len(line)
        hasPtr == n >= 2 /\ line[2].k = "pointer"
        tagAt == IF hasPtr THEN 3 ELSE 2
    IN  IF /\ n >= tagAt + 1
           /\ line[1].k = "level"
           /\ line[tagAt].k = "tag"
           /\ line[n] = CR
           /\ \A i \in (tagAt + 1)..(n - 1) : line[i].k \in {"value", "CR"}
        THEN [ok |-> TRUE,
              level |-> line[1].n,
              pointer |-> IF hasPtr THEN line[2].s ELSE "",
              tag |-> line[tagAt].s,
              value |-> IF n - 1 >= tagAt + 1 THEN line[tagAt + 1].s ELSE ""]
        ELSE NoMatch

\* LevelTooHigh with the comparison off by one: a line one level below the
\* previous one is refused too
LevelTooHigh_OffByOne(level, last_level) == level > last_level

\* "Check level: should never be more than one higher than previous line."
LevelTooHigh(level, last_level) == level > last_level + 1

\* ParentOf without the backing up: the previous element is the parent
ParentOf_NoBackUp(heap, parent_elem, level) == parent_elem

RECURSIVE ParentOf(_, _, _)
\* "Start with last element as parent, back up if necessary."
ParentOf(heap, parent_elem, level) ==
    IF heap[parent_elem].level > level - 1
    THEN ParentOf(heap, heap[parent_elem].parent, level)
    ELSE parent_elem

\* DictStore that keeps the entry a pointer already has
DictStore_KeepFirst(d, pointer, element) ==
    [p \in DOMAIN d \cup {pointer} |-> IF p \in DOMAIN d THEN d[p] ELSE element]

\* self.as_dict[pointer] = element
DictStore(d, pointer, element) ==
    [p \in DOMAIN d \cup {pointer} |-> IF p = pointer THEN element ELSE d[p]]

SyntaxError(n, why) == [type |-> "SyntaxError", line_num |-> n, why |-> why]
NoError == [type |-> "none", line_num |-> 0, why |-> ""]

NoResult == [op |-> "none", x |-> 0, y |-> 0, mode |-> "",
             ret |-> [exc |-> "none", isNone |-> FALSE, val |-> <<>>]]
-----------------------------------------------------------------------------
(* The query methods of Gedcom (gedcom/parser.py) *)

\* what a call returns (a list, or None) or raises
Returns(l) == [exc |-> "none", isNone |-> FALSE, val |-> l]
ReturnsNone == [exc |-> "none", isNone |-> TRUE, val |-> <<>>]
Raises(e) == [exc |-> e, isNone |-> FALSE, val |-> <<>>]

RECURSIVE Flatten(_)
\* acc = []; for l in ls: acc = acc + l
Flatten(ls) == IF ls = <<>> THEN <<>> ELSE Head(ls) \o Flatten(Tail(ls))

families(individual, family_type) ==
    IF ~is_individual(individual) THEN Raises("ValueError")
    ELSE LET children == elem[individual].children
         IN  Returns(Flatten([i \in DOMAIN children |->
                 LET child == elem[children[i]]
                 IN  IF /\ child.tag = family_type
                        /\ child.value \in DOMAIN as_dict
                        /\ is_family(as_dict[child.value])
                     THEN <<as_dict[child.value]>>
                     ELSE <<>>]))

\* IsMember whose default forgets the children of the family
IsMember_NoChil(tag, mem_type) ==
    CASE mem_type = "PARENTS" -> tag \in {"HUSB", "WIFE"}
      [] mem_type = "HUSB" -> tag = "HUSB"
      [] mem_type = "WIFE" -> tag = "WIFE"
      [] mem_type = "CHIL" -> tag = "CHIL"
      [] OTHER -> tag \in {"HUSB", "WIFE"}

\* the test "is_family" of get_family_members on one child of the family
IsMember(tag, mem_type) ==
    CASE mem_type = "PARENTS" -> tag \in {"HUSB", "WIFE"}
      [] mem_type = "HUSB" -> tag = "HUSB"
      [] mem_type = "WIFE" -> tag = "WIFE"
      [] mem_type = "CHIL" -> tag = "CHIL"
      [] OTHER -> tag \in {"HUSB", "WIFE", "CHIL"}

get_family_members(family, mem_type) ==
    IF ~is_family(family) THEN Raises("ValueError")
    ELSE LET children == elem[family].children
         IN  Returns(Flatten([i \in DOMAIN children |->
                 LET e == elem[children[i]]
                 IN  IF IsMember(e.tag, mem_type) /\ e.value \in DOMAIN as_dict
                     THEN <<as_dict[e.value]>>
                     ELSE <<>>]))

\* get_parents, "NAT": what one child (chilrec) of a CHIL entry adds
NaturalParents(family, chilrec) ==
    IF elem[chilrec].value = "Natural"
    THEN IF elem[chilrec].tag = "_FREL"
         THEN get_family_members(family, "WIFE").val
         ELSE IF elem[chilrec].tag = "_MREL"
         THEN get_family_members(family, "HUSB").val
         ELSE <<>>
    ELSE <<>>

\* get_parents, "NAT": what one child (famrec) of a family adds
NaturalParentsOfEntry(family, famrec, indi) ==
    IF elem[famrec].tag = "CHIL" /\ elem[famrec].value = elem[indi].pointer
    THEN LET chilrecs == elem[famrec].children
         IN  Flatten([i \in DOMAIN chilrecs |-> NaturalParents(family, chilrecs[i])])
    ELSE <<>>

get_parents(indi, parent_type) ==
    IF ~is_individual(indi) THEN Raises("ValueError")
    ELSE LET famc_families == families(indi, "FAMC").val
         IN  Returns(Flatten([i \in DOMAIN famc_families |->
                 LET family == famc_families[i]
                     famrecs == elem[family].children
                 IN  IF parent_type = "NAT"
                     THEN Flatten([j \in DOMAIN famrecs |->
                              NaturalParentsOfEntry(family, famrecs[j], indi)])
                     ELSE get_family_members(family, "PARENTS").val]))

\* get_ancestors_at without the loop over the parents
get_ancestors_at_ParentsOnly(indi, anc_type, depth) ==
    IF ~is_individual(indi) THEN Raises("ValueError")
    ELSE get_parents(indi, anc_type)

RECURSIVE get_ancestors_at(_, _, _)
RECURSIVE AncestorsLoop(_, _, _)

\* get_ancestors: "for parent in parents: ancestors = ancestors +
\* self.get_ancestors(parent)"; an exception of a call ends the loop
AncestorsLoop(parents, ancestors, depth) ==
    IF parents = <<>> THEN Returns(ancestors)
    ELSE LET r == get_ancestors_at(Head(parents), "ALL", depth + 1)
         IN  IF r.exc # "none" THEN r
             ELSE AncestorsLoop(Tail(parents), ancestors \o r.val, depth)

\* get_ancestors, called at recursion depth depth
get_ancestors_at(indi, anc_type, depth) ==
    IF depth > MaxDepth THEN Raises("RuntimeError")
    ELSE IF ~is_individual(indi) THEN Raises("ValueError")
    ELSE LET parents == get_parents(indi, anc_type).val
         IN  AncestorsLoop(parents, parents, depth)

get_ancestors(indi, anc_type) == get_ancestors_at(indi, anc_type, 1)

RECURSIVE find_path_at(_, _, _, _)
RECURSIVE PathLoop(_, _, _, _)

\* find_path_to_anc: "for par in parents: ..." and the final "return None"
PathLoop(parents, anc, path, depth) ==
    IF parents = <<>> THEN ReturnsNone
    ELSE LET par == Head(parents)
             potential_path == find_path_at(par, anc, path \o <<par>>, depth + 1)
         IN  IF potential_path.exc # "none" THEN potential_path
             ELSE IF ~potential_path.isNone /\ potential_path.val # <<>>
             THEN potential_path
             ELSE PathLoop(Tail(parents), anc, path, depth)

\* find_path_to_anc, called at recursion depth depth; path = <<>> is the
\* default argument None
find_path_at(desc, anc, path0, depth) ==
    IF depth > MaxDepth THEN Raises("RuntimeError")
    ELSE IF ~is_individual(desc) /\ is_individual(anc) THEN Raises("ValueError")
    ELSE LET path == IF path0 = <<>> THEN <<desc>> ELSE path0
         IN  IF elem[path[Len(path)]].pointer = elem[anc].pointer
             THEN Returns(path)
             ELSE LET parents == get_parents(desc, "NAT")
                  IN  IF parents.exc # "none" THEN parents
                      ELSE PathLoop(parents.val, anc, path, depth)

find_path_to_anc(desc, anc) == find_path_at(desc, anc, <<>>, 1)

\* marrdata.value.split(): the pieces of a value between runs of white
\* space, for the values the texts of the model hold (any other value of
\* theirs, the empty one apart, is read as a single piece)
value_split(value) ==
    CASE value = "" -> <<>>
      [] value = "12 Jan 1900" -> <<"12", "Jan", "1900">>
      [] value = "Jan 1900 BC" -> <<"Jan", "1900", "BC">>
      [] value = "28 Feb 2002" -> <<"28", "Feb", "2002">>
      [] OTHER -> <<value>>

\* int(date): the number a piece denotes, or a ValueError
int(date) ==
    CASE date = "1850" -> [ok |-> TRUE, n |-> 1850]
      [] date = "1900" -> [ok |-> TRUE, n |-> 1900]
      [] date = "2002" -> [ok |-> TRUE, n |-> 2002]
      [] date = "12" -> [ok |-> TRUE, n |-> 12]
      [] date = "28" -> [ok |-> TRUE, n |-> 28]
      [] OTHER -> [ok |-> FALSE, n |-> 0]

\* marriage_years: the DATE children of the MARR children of the families
\* of families(individual, "FAMS"), in the order the loops visit them
MarriageDates(individual) ==
    LET fams_families == families(individual, "FAMS").val
    IN  Flatten([i \in DOMAIN fams_families |->
            LET famdatas == elem[fams_families[i]].children
            IN  Flatten([j \in DOMAIN famdatas |->
                    IF elem[famdatas[j]].tag = "MARR"
                    THEN SelectSeq(elem[famdatas[j]].children,
                                   LAMBDA marrdata : elem[marrdata].tag = "DATE")
                    ELSE <<>>])])

RECURSIVE YearsLoop(_, _)
\* marriage_years: what the loop body does with each DATE in turn:
\* "date = marrdata.value.split()[-1]", then "dates.append(int(date))"
\* unless int raises ValueError; [-1] of an empty list raises IndexError
YearsLoop(marrdatas, dates) ==
    IF marrdatas = <<>> THEN Returns(dates)
    ELSE LET pieces == value_split(elem[Head(marrdatas)].value)
         IN  IF pieces = <<>> THEN Raises("IndexError")
             ELSE LET year == int(pieces[Len(pieces)])
                  IN  YearsLoop(Tail(marrdatas),
                                IF year.ok THEN Append(dates, year.n) ELSE dates)

marriage_years(individual) ==
    IF ~is_individual(individual) THEN Raises("ValueError")
    ELSE YearsLoop(MarriageDates(individual), <<>>)

-----------------------------------------------------------------------------
(* The texts the constructor is run on *)

\* free-form lines: every level, with and without a pointer
FreeLines == {L(lv, p, "NOTE", "") : lv \in 0..MaxLevel, p \in {"", "@A@"}}

FreeTexts ==
    {JoinLines(ls, useCR, finalLF) :
        ls \in UNION {[1..n -> FreeLines] : n \in 0..MaxLines},
        useCR \in BOOLEAN, finalLF \in BOOLEAN}

\* "0 HEAD\n1 SOUR FTW\n2 VERS 3.40\n" (spec.md, section 8)
HeadSourVers ==
    <<L(0, "", "HEAD", ""), L(1, "", "SOUR", "FTW"), L(2, "", "VERS", "3.40")>>

\* the document of test_header_only (test.py)
HeaderOnly ==
    HeadSourVers \o
    <<L(2, "", "NAME", "Family Tree Maker for Windows"),
      L(2, "", "CORP", "Broderbund Software, Banner Blue Division"),
      L(3, "", "ADDR", "39500 Stevenson Pl.  #204"),
      L(4, "", "CONT", "Fremont, CA 95439"),
      L(4, "", "PHON", "(510) 794-6850"),
      L(1, "", "DEST", "FTW"),
      L(1, "", "DATE", "28 Feb 2002"),
      L(1, "", "CHAR", "ANSI"),
      L(1, "", "SUBM", "@SUBM@"),
      L(1, "", "FILE", "E:\\Fam\\Wolf1130.GED"),
      L(1, "", "GEDC", "")>>

ScenarioTexts ==
    {JoinLines(ls, useCR, finalLF) :
        ls \in {HeadSourVers, HeaderOnly},
        useCR \in BOOLEAN, finalLF \in BOOLEAN}

\* pedigrees: three individuals and two families.  @I1@ is listed as a child
\* (FAMC) of @F1@ and @I2@ of @F2@; who the husband and the wife of a family
\* are, whether the family lists the child, and how the child's relation to
\* father (_FREL) and mother (_MREL) is annotated, all vary.
Rel(chil, frel, mrel) == [chil |-> chil, frel |-> frel, mrel |-> mrel]

Relations1 ==
    {Rel(FALSE, "", "")} \cup
    {Rel(TRUE, f, m) : f \in {"", "Natural"}, m \in {"", "Natural"}} \cup
    {Rel(TRUE, "Adopted", "Natural"), Rel(TRUE, "Natural", "Adopted")}

Relations2 == {Rel(TRUE, "", ""), Rel(TRUE, "Natural", "Natural")}

Pedigrees ==
    [h1 : {"", "@I2@", "@I3@", "@F2@", "@X9@"}, w1 : {"", "@I2@", "@I3@"},
     r1 : Relations1, chilFirst : BOOLEAN,
     h2 : {"@I3@", "@I1@"}, w2 : {"", "@I3@"}, r2 : Relations2]

Ref(tag, pointer) == IF pointer = "" THEN <<>> ELSE <<L(1, "", tag, pointer)>>

Chil(pointer, r) ==
    IF ~r.chil THEN <<>>
    ELSE <<L(1, "", "CHIL", pointer)>>
         \o (IF r.frel = "" THEN <<>> ELSE <<L(2, "", "_FREL", r.frel)>>)
         \o (IF r.mrel = "" THEN <<>> ELSE <<L(2, "", "_MREL", r.mrel)>>)

PedigreeLines(g) ==
    <<L(0, "@I1@", "INDI", ""), L(1, "", "FAMC", "@F1@"),
      L(0, "@I2@", "INDI", ""), L(1, "", "FAMC", "@F2@"),
      L(0, "@I3@", "INDI", ""),
      L(0, "@F1@", "FAM", "")>>
    \o (IF g.chilFirst THEN Chil("@I1@", g.r1) ELSE <<>>)
    \o Ref("HUSB", g.h1) \o Ref("WIFE", g.w1)
    \o (IF g.chilFirst THEN <<>> ELSE Chil("@I1@", g.r1))
    \o <<L(0, "@F2@", "FAM", "")>>
    \o Ref("HUSB", g.h2) \o Ref("WIFE", g.w2) \o Chil("@I2@", g.r2)

PedigreeTexts == {JoinLines(PedigreeLines(g), TRUE, TRUE) : g \in Pedigrees}

\* marriages: @I1@ is a spouse (FAMS) of @F1@ and possibly of @F2@; the MARR
\* record of @F1@ has up to two DATE children around a PLAC, that of @F2@
\* up to one; a DATE line may have no value at all ("2 DATE")
Date(present, value) == [present |-> present, value |-> value]

Dates ==
    {Date(FALSE, "")} \cup
    {Date(TRUE, v) : v \in {"", "1900", "12 Jan 1900", "abt", "Jan 1900 BC"}}

Marriages ==
    [d1 : Dates, d2 : Dates, d3 : {Date(FALSE, ""), Date(TRUE, ""), Date(TRUE, "1850")},
     fams2 : BOOLEAN]

DateLine(d) == IF d.present THEN <<L(2, "", "DATE", d.value)>> ELSE <<>>

MarriageLines(g) ==
    <<L(0, "@I1@", "INDI", ""), L(1, "", "FAMS", "@F1@")>>
    \o (IF g.fams2 THEN <<L(1, "", "FAMS", "@F2@")>> ELSE <<>>)
    \o <<L(0, "@F1@", "FAM", ""), L(1, "", "MARR", "")>>
    \o DateLine(g.d1) \o <<L(2, "", "PLAC", "Paris")>> \o DateLine(g.d2)
    \o <<L(0, "@F2@", "FAM", ""), L(1, "", "MARR", "")>>
    \o DateLine(g.d3)

MarriageTexts == {JoinLines(MarriageLines(g), TRUE, TRUE) : g \in Marriages}

Texts == FreeTexts \cup ScenarioTexts \cup PedigreeTexts \cup MarriageTexts

-----------------------------------------------------------------------------
(* The constructor *)

\* Gedcom.__init__ up to the call of parse
Init ==
    /\ text \in Texts
    /\ pc = "start"
    /\ lines = <<>>
    /\ line_num = 0
    /\ last_elem = top_element
    /\ elem = [e \in {top_element} |-> Element(TopLevel, "", "TOP", "")]
    /\ as_list = <<>>
    /\ as_dict = [p \in {} |-> top_element]
    /\ err = NoError
    /\ result = NoResult

\* parse: the statements before the loop
Parse ==
    /\ pc = "start"
    /\ line_num' = 1
    /\ last_elem' = top_element
    /\ lines' = LinesToParse(text)
    /\ pc' = "loop"
    /\ UNCHANGED <<text, elem, as_list, as_dict, err, result>>

\* one turn of the loop of parse: parse_line on the next line
ParseLine ==
    /\ pc = "loop"
    /\ lines # <<>>
    /\ LET line == Head(lines)
           m == ged_line_match(line)
       IN  IF ~m.ok
           THEN /\ err' = SyntaxError(line_num, "format")
                /\ pc' = "error"
                /\ UNCHANGED <<lines, line_num, last_elem, elem, as_list, as_dict>>
           ELSE IF LevelTooHigh(m.level, elem[last_elem].level)
           THEN /\ err' = SyntaxError(line_num, "level")
                /\ pc' = "error"
                /\ UNCHANGED <<lines, line_num, last_elem, elem, as_list, as_dict>>
           ELSE LET element == Cardinality(DOMAIN elem)
                    parent_elem == ParentOf(elem, last_elem, m.level)
                IN  /\ as_list' = Append(as_list, element)
                    /\ as_dict' = IF m.pointer # ""
                                  THEN DictStore(as_dict, m.pointer, element)
                                  ELSE as_dict
                    /\ elem' = [e \in DOMAIN elem \cup {element} |->
                                  IF e = element
                                  THEN add_parent(Element(m.level, m.pointer, m.tag, m.value),
                                                  parent_elem)
                                  ELSE IF e = parent_elem
                                  THEN add_child(elem[e], element)
                                  ELSE elem[e]]
                    /\ last_elem' = element
                    /\ line_num' = line_num + 1
                    /\ lines' = Tail(lines)
                    /\ UNCHANGED <<pc, err>>
    /\ UNCHANGED <<text, result>>

\* the loop of parse has visited every line: the constructor returns
ParseEnd ==
    /\ pc = "loop"
    /\ lines = <<>>
    /\ pc' = "done"
    /\ UNCHANGED <<text, lines, line_num, last_elem, elem, as_list, as_dict, err, result>>

\* the records a query is called on: the records of level 0
Records == {as_list[i] : i \in 1..Len(as_list)}
QueryArgs == {e \in Records : elem[e].level = 0}

Call(op, x, y, mode, ret) == [op |-> op, x |-> x, y |-> y, mode |-> mode, ret |-> ret]

\* The constructor has returned and no query has been called yet.  No query
\* changes the object, so a run makes one call: any later call returns what
\* it returns as the first one.
Ready == pc = "done" /\ result = NoResult

Families ==
    /\ Ready
    /\ \E x \in QueryArgs, t \in {"FAMS", "FAMC"} :
          result' = Call("families", x, x, t, families(x, t))
    /\ UNCHANGED <<text, pc, lines, line_num, last_elem, elem, as_list, as_dict, err>>

GetFamilyMembers ==
    /\ Ready
    /\ \E x \in QueryArgs, t \in {"ALL", "PARENTS", "HUSB", "WIFE", "CHIL"} :
          result' = Call("get_family_members", x, x, t, get_family_members(x, t))
    /\ UNCHANGED <<text, pc, lines, line_num, last_elem, elem, as_list, as_dict, err>>

GetParents ==
    /\ Ready
    /\ \E x \in QueryArgs, t \in {"ALL", "NAT"} :
          result' = Call("get_parents", x, x, t, get_parents(x, t))
    /\ UNCHANGED <<text, pc, lines, line_num, last_elem, elem, as_list, as_dict, err>>

GetAncestors ==
    /\ Ready
    /\ \E x \in QueryArgs, t \in {"ALL", "NAT"} :
          result' = Call("get_ancestors", x, x, t, get_ancestors(x, t))
    /\ UNCHANGED <<text, pc, lines, line_num, last_elem, elem, as_list, as_dict, err>>

FindPathToAnc ==
    /\ Ready
    /\ \E x \in QueryArgs, y \in QueryArgs :
          result' = Call("find_path_to_anc", x, y, "", find_path_to_anc(x, y))
    /\ UNCHANGED <<text, pc, lines, line_num, last_elem, elem, as_list, as_dict, err>>

MarriageYears ==
    /\ Ready
    /\ \E x \in QueryArgs :
          result' = Call("marriage_years", x, x, "", marriage_years(x))
    /\ UNCHANGED <<text, pc, lines, line_num, last_elem, elem, as_list, as_dict, err>>

Next ==
    \/ Parse \/ ParseLine \/ ParseEnd
    \/ Families \/ GetFamilyMembers \/ GetParents \/ GetAncestors \/ FindPathToAnc
    \/ MarriageYears

Spec == Init /\ [][Next]_vars

-----------------------------------------------------------------------------
(* Properties of the constructor *)

Set(s) == {s[i] : i \in DOMAIN s}

\* the level of the record accepted last, top_element before the first line
PrecedingLevel ==
    IF as_list = <<>> THEN elem[top_element].level
    ELSE elem[as_list[Len(as_list)]].level

\* where a record stands in as_list (0: nowhere)
Position(e) ==
    IF e \in Set(as_list) THEN CHOOSE i \in 1..Len(as_list) : as_list[i] = e ELSE 0

\* C1: at any point of the parse, every record of as_list has a parent, the
\* parent's level is the record's level minus 1, the record occurs exactly
\* once among its parent's children, and children are listed in document
\* order (the order of as_list); top_element has level -1 and no parent.
C1_TreeShape ==
    /\ elem[top_element].level = -1
    /\ elem[top_element].parent = NoneRef
    /\ \A i \in 1..Len(as_list) :
          LET e == as_list[i]
              p == elem[e].parent
          IN  /\ p \in DOMAIN elem
              /\ elem[p].level = elem[e].level - 1
              /\ Cardinality({k \in DOMAIN elem[p].children : elem[p].children[k] = e}) = 1
              /\ Position(e) = i
    /\ \A p \in DOMAIN elem :
          \A j \in 2..Len(elem[p].children) :
              Position(elem[p].children[j - 1]) < Position(elem[p].children[j])

\* C1, witness: a parse has ended on a document in which a line backs up by
\* two levels or more to a parent that is not top_element
C1_Witness ==
    /\ pc = "done"
    /\ \E i \in 2..Len(as_list) :
          /\ elem[as_list[i]].level <= elem[as_list[i - 1]].level - 2
          /\ elem[as_list[i]].parent # top_element

\* C2: a line that matches the grammar is refused, with an error that names
\* its 1-based line number, exactly when its level exceeds the level of the
\* record accepted last by more than 1; otherwise it is accepted (it becomes
\* the next record of as_list and the parse goes on).
C2_LevelCheck ==
    [][(pc = "loop" /\ lines # <<>> /\ ged_line_match(Head(lines)).ok) =>
         LET level == Head(lines)[1].n
             number == Len(as_list) + 1
             refused == /\ pc' = "error"
                        /\ err'.type = "SyntaxError"
                        /\ err'.line_num = number
                        /\ as_list' = as_list
             accepted == /\ pc' = "loop"
                         /\ err' = NoError
                         /\ Len(as_list') = number
                         /\ elem'[as_list'[number]].level = level
         IN  /\ refused <=> level > PrecedingLevel + 1
             /\ accepted <=> level <= PrecedingLevel + 1
      ]_vars

\* C2, witness: a line after the first one was refused for its level
C2_Witness == pc = "error" /\ err.why = "level" /\ err.line_num >= 2

\* C3: the parse of "0 HEAD\n1 SOUR FTW\n2 VERS 3.40\n" (bare line feeds)
\* succeeds with three records of levels 0, 1, 2, each the child of the one
\* before, the first the child of top_element.
C3_BareLineFeeds ==
    (text = JoinLines(HeadSourVers, FALSE, TRUE) /\ pc \in {"done", "error"}) =>
        /\ pc = "done"
        /\ Len(as_list) = 3
        /\ \A i \in 1..3 :
              /\ elem[as_list[i]].level = i - 1
              /\ elem[as_list[i]].tag = HeadSourVers[i].tag
              /\ elem[as_list[i]].parent = IF i = 1 THEN top_element ELSE as_list[i - 1]

\* the lines of a text: the pieces between line feeds, without the empty
\* piece after a final line feed
TextLines(t) ==
    LET pieces == Split(t)
    IN  IF pieces[Len(pieces)] = <<>> THEN DropLast(pieces) ELSE pieces

\* every line of the text matches the grammar and no level exceeds the level
\* of the line before by more than 1 (the first line has level 0)
ValidText(t) ==
    LET ls == TextLines(t)
    IN  \A i \in 1..Len(ls) :
            /\ ged_line_match(ls[i]).ok
            /\ ged_line_match(ls[i]).level <=
                   (IF i = 1 THEN 0 ELSE ged_line_match(ls[i - 1]).level + 1)

\* C4: for a text of valid lines the constructor ends with one record per
\* line of the text, in the order of the lines, also for the last line of a
\* text that does not end with a line feed; none for the empty text.
C4_RecordPerLine ==
    (pc \in {"done", "error"} /\ ValidText(text)) =>
        /\ pc = "done"
        /\ Len(as_list) = Len(TextLines(text))
        /\ \A i \in 1..Len(as_list) :
              LET m == ged_line_match(TextLines(text)[i])
                  e == elem[as_list[i]]
              IN  /\ e.level = m.level /\ e.pointer = m.pointer
                  /\ e.tag = m.tag /\ e.value = m.value

\* the pointers the records of as_list declare
Pointers == {elem[e].pointer : e \in Set(as_list)} \ {""}

\* C5 as claimed: after construction as_dict maps the pointer of every
\* record that has one to that very record, and has no other keys.
C5_DictHoldsEveryRecord ==
    pc = "done" =>
        /\ DOMAIN as_dict = Pointers
        /\ \A r \in Set(as_list) :
              elem[r].pointer # "" => as_dict[elem[r].pointer] = r

\* C5, amended: after construction the keys of as_dict are the pointers the
\* records declare, and as_dict maps a pointer to the last record of
\* as_list that declares it (to the record itself when no later line
\* declares the same pointer).
C5_DictHoldsLastRecord ==
    pc = "done" =>
        /\ DOMAIN as_dict = Pointers
        /\ \A i \in 1..Len(as_list) :
              LET p == elem[as_list[i]].pointer
              IN  p # "" =>
                    (as_dict[p] = as_list[i] <=>
                        \A j \in (i + 1)..Len(as_list) : elem[as_list[j]].pointer # p)

\* C5, witness: construction has ended on a document in which two lines
\* declare the same pointer
C5_Witness ==
    /\ pc = "done"
    /\ \E i, j \in 1..Len(as_list) :
          i < j /\ elem[as_list[i]].pointer # ""
                /\ elem[as_list[i]].pointer = elem[as_list[j]].pointer

-----------------------------------------------------------------------------
(* Properties of the queries *)

\* the parents of a record as get_parents lists them; none for a record
\* get_parents refuses
ParentsOf(a, mode) ==
    IF is_individual(a) THEN Set(get_parents(a, mode).val) ELSE {}

RECURSIVE Closure(_, _, _)
\* the records reached from the records of S by at most n steps of
\* get_parents(., mode), S included
Closure(S, mode, n) ==
    IF n = 0 THEN S
    ELSE LET T == S \cup UNION {ParentsOf(a, mode) : a \in S}
         IN  IF T = S THEN S ELSE Closure(T, mode, n - 1)

\* the records reached from a by one step of get_parents(., mode) or more
AncestorsOf(a, mode) == Closure(ParentsOf(a, mode), mode, Len(as_list))

\* no record is its own ancestor
Acyclic == \A a \in Set(as_list) : is_individual(a) => a \notin AncestorsOf(a, "ALL")

\* every HUSB or WIFE line whose value is a declared pointer names an INDI
SpousesAreIndividuals ==
    \A e \in Set(as_list) :
        (elem[e].tag \in {"HUSB", "WIFE"} /\ elem[e].value \in DOMAIN as_dict)
            => is_individual(as_dict[elem[e].value])

\* the entry c of a family has a child of this tag whose value is "Natural"
HasNatural(c, tag) ==
    \E a \in Set(elem[c].children) : elem[a].tag = tag /\ elem[a].value = "Natural"

\* the natural parents of indi as C6 describes them
ClaimedNaturalParents(indi) ==
    UNION {
        (IF HasNatural(c, "_FREL") THEN Set(get_family_members(F, "HUSB").val) ELSE {})
        \cup
        (IF HasNatural(c, "_MREL") THEN Set(get_family_members(F, "WIFE").val) ELSE {}) :
        <<F, c>> \in {fc \in Set(families(indi, "FAMC").val) \X Set(as_list) :
                        /\ fc[2] \in Set(elem[fc[1]].children)
                        /\ elem[fc[2]].tag = "CHIL"
                        /\ elem[fc[2]].value = elem[indi].pointer}}

\* C6: get_parents(indi, "NAT") returns the husbands of the families in
\* which the CHIL entry of indi has a _FREL child "Natural" and the wives of
\* those in which it has a _MREL child "Natural", and nobody else.
C6_NaturalParents ==
    (result.op = "get_parents" /\ result.mode = "NAT" /\ is_individual(result.x)) =>
        /\ result.ret.exc = "none"
        /\ Set(result.ret.val) = ClaimedNaturalParents(result.x)

\* C7: on an acyclic document a get_ancestors(indi, mode) that returns,
\* returns the records reached from indi by steps of get_parents(., mode),
\* with the mode of the call at every step.
C7_AncestorsByMode ==
    (/\ result.op = "get_ancestors" /\ is_individual(result.x)
     /\ result.ret.exc = "none" /\ Acyclic) =>
        Set(result.ret.val) = AncestorsOf(result.x, result.mode)

\* C8: on an acyclic document in which every resolved HUSB or WIFE names an
\* INDI, get_ancestors(x, "ALL") returns, its result holds every parent of x
\* (get_parents(x, "ALL")) and every parent of every record it holds.
C8_AncestorsClosed ==
    (/\ result.op = "get_ancestors" /\ result.mode = "ALL" /\ is_individual(result.x)
     /\ Acyclic /\ SpousesAreIndividuals) =>
        /\ result.ret.exc = "none"
        /\ ParentsOf(result.x, "ALL") \subseteq Set(result.ret.val)
        /\ \A a \in Set(result.ret.val) :
              /\ is_individual(a)
              /\ ParentsOf(a, "ALL") \subseteq Set(result.ret.val)

\* C8, witness: such a call has returned a record that is a parent of a
\* parent of x and not a parent of x
C8_Witness ==
    /\ result.op = "get_ancestors" /\ result.mode = "ALL" /\ is_individual(result.x)
    /\ Acyclic /\ SpousesAreIndividuals
    /\ \E a \in ParentsOf(result.x, "ALL") :
          \E b \in ParentsOf(a, "ALL") :
              b \in Set(result.ret.val) /\ b \notin ParentsOf(result.x, "ALL")

\* no element occurs twice in the sequence
NoDuplicates(s) == \A i, j \in DOMAIN s : i # j => s[i] # s[j]

\* the HUSB, WIFE and CHIL children of fam whose value is a declared pointer
References(fam) ==
    SelectSeq(elem[fam].children,
              LAMBDA c : /\ elem[c].tag \in {"HUSB", "WIFE", "CHIL"}
                         /\ elem[c].value \in DOMAIN as_dict)

\* the records the filtered calls return
FilteredMembers(fam) ==
    Set(get_family_members(fam, "HUSB").val)
    \cup Set(get_family_members(fam, "WIFE").val)
    \cup Set(get_family_members(fam, "CHIL").val)

\* the members are listed in the order of their first reference
FirstReferenceOrder(fam, members) ==
    \A i, j \in DOMAIN members :
        i < j => \E a \in DOMAIN References(fam) :
                    /\ as_dict[elem[References(fam)[a]].value] = members[i]
                    /\ \A b \in 1..a :
                          as_dict[elem[References(fam)[b]].value] # members[j]

\* C9 as claimed: get_family_members(fam, "ALL") holds the records of the
\* HUSB, WIFE and CHIL calls and no others, none of them twice, in the order
\* of their first reference among the children of fam.
C9_MembersOnce ==
    (result.op = "get_family_members" /\ result.mode = "ALL" /\ is_family(result.x)) =>
        /\ result.ret.exc = "none"
        /\ Set(result.ret.val) = FilteredMembers(result.x)
        /\ NoDuplicates(result.ret.val)
        /\ FirstReferenceOrder(result.x, result.ret.val)

\* C9, amended: get_family_members(fam, "ALL") holds the records of the
\* HUSB, WIFE and CHIL calls and no others, one entry for every HUSB, WIFE
\* or CHIL child of fam whose value is a declared pointer, in the order of
\* these children; so no record is listed twice exactly when no two of
\* these children name the same record.
C9_MembersPerReference ==
    (result.op = "get_family_members" /\ result.mode = "ALL" /\ is_family(result.x)) =>
        LET refs == References(result.x)
        IN  /\ result.ret.exc = "none"
            /\ Set(result.ret.val) = FilteredMembers(result.x)
            /\ Len(result.ret.val) = Len(refs)
            /\ \A i \in DOMAIN refs : result.ret.val[i] = as_dict[elem[refs[i]].value]
            /\ NoDuplicates(result.ret.val) <=>
                  \A i, j \in DOMAIN refs :
                      i # j => as_dict[elem[refs[i]].value] # as_dict[elem[refs[j]].value]

\* C9, witness: the call has returned a list that holds a record twice
C9_Witness ==
    /\ result.op = "get_family_members" /\ result.mode = "ALL" /\ is_family(result.x)
    /\ Len(result.ret.val) >= 3
    /\ ~NoDuplicates(result.ret.val)

\* path starts at desc, every further element is a natural parent of the one
\* before it, and the pointer of the last one is the pointer of anc
IsNaturalChain(path, desc, anc) ==
    /\ path # <<>>
    /\ path[1] = desc
    /\ \A i \in 2..Len(path) : path[i] \in ParentsOf(path[i - 1], "NAT")
    /\ elem[path[Len(path)]].pointer = elem[anc].pointer

\* some chain of natural parents leads from desc to a record with the
\* pointer of anc
ChainExists(desc, anc) ==
    \E r \in Closure({desc}, "NAT", Len(as_list)) : elem[r].pointer = elem[anc].pointer

\* C10: on an acyclic document find_path_to_anc(desc, anc), called on two
\* INDI records, returns a chain of natural parents from desc to a record
\* with the pointer of anc when there is one, and None when there is none.
C10_PathToAncestor ==
    (/\ result.op = "find_path_to_anc"
     /\ is_individual(result.x) /\ is_individual(result.y) /\ Acyclic) =>
        /\ result.ret.exc = "none"
        /\ IF ChainExists(result.x, result.y)
           THEN ~result.ret.isNone /\ IsNaturalChain(result.ret.val, result.x, result.y)
           ELSE result.ret.isNone

\* C11: find_path_to_anc(desc, anc) raises ValueError, and returns neither a
\* path nor None, whenever desc or anc is not an INDI record.
C11_PathArgumentsChecked ==
    (/\ result.op = "find_path_to_anc"
     /\ (~is_individual(result.x) \/ ~is_individual(result.y))) =>
        result.ret.exc = "ValueError"

\* C12: on an acyclic document get_parents(x, mode) and get_ancestors(x,
\* mode), called on an INDI record x, return: a HUSB or WIFE whose value is
\* no declared pointer, or the pointer of a record that is not an INDI,
\* raises nothing.
C12_TraversalNeverRaises ==
    (/\ result.op \in {"get_parents", "get_ancestors"}
     /\ is_individual(result.x) /\ Acyclic) =>
        result.ret.exc = "none"

RECURSIVE ParsedYears(_)
\* of the DATE records, in their order, the numbers that the last pieces of
\* their values denote; a DATE whose value has no piece, or whose last piece
\* denotes no number, adds nothing
ParsedYears(marrdatas) ==
    IF marrdatas = <<>> THEN <<>>
    ELSE LET pieces == value_split(elem[Head(marrdatas)].value)
         IN  (IF pieces # <<>> /\ int(pieces[Len(pieces)]).ok
              THEN <<int(pieces[Len(pieces)]).n>>
              ELSE <<>>)
             \o ParsedYears(Tail(marrdatas))

\* C13: marriage_years(individual), called on an INDI record, raises
\* nothing and returns, for the DATE children of the MARR children of the
\* individual's FAMS families, the numbers their last pieces denote; a DATE
\* without such a number is skipped, also a DATE with an empty value.
C13_MarriageYearsSkips ==
    (result.op = "marriage_years" /\ is_individual(result.x)) =>
        /\ result.ret.exc = "none"
        /\ result.ret.val = ParsedYears(MarriageDates(result.x))

\* an individual reached from x by steps of get_parents(., "ALL"), x
\* included, is its own ancestor
CycleReachable(x) ==
    \E a \in Closure({x}, "ALL", Len(as_list)) :
        is_individual(a) /\ a \in AncestorsOf(a, "ALL")

\* C14: get_ancestors(x, "ALL"), called on an INDI record x, comes to an end
\* exactly when no individual reached from x by get_parents(., "ALL") steps
\* lies on a cycle of such steps; with such a cycle the recursion goes on
\* for ever.
C14_EndsIffNoCycle ==
    (/\ result.op = "get_ancestors" /\ result.mode = "ALL"
     /\ is_individual(result.x)) =>
        ((result.ret.exc # "RuntimeError") <=> ~CycleReachable(result.x))

====
